---- MODULE Spec2Model ----
(***************************************************************************)
(* Model of the archive / trash storage subsystem of linux-storage-manager *)
(* (src/modules/storage_manager.py, archive_manager.py, trash_manager.py,  *)
(* restore_manager.py and the storage dispatch of src/main.py).            *)
(*                                                                         *)
(* Time is counted in ticks; TicksPerDay ticks make one calendar day, so   *)
(* the calendar date of a modification time m is m \div TicksPerDay and    *)
(* timedelta(days=k) is k * TicksPerDay ticks.                             *)
(***************************************************************************)
EXTENDS Integers, Sequences, FiniteSets, TLC

\* ------------------------------------------------------------------ bounds
MaxReports == 3
MaxBackups == 3
MaxTime == 3
MaxBackupTime == 1
MaxKeepDays == 2
MaxKeepCount == 3
MaxOps == 2
MaxClock == 1
MaxFaults == 1
MaxSeals == 1
MaxStaged == 2
MaxRuns == 2
MaxTagged == 3

TicksPerDay == 2

VARIABLES
  now,          \* datetime.now(), in ticks
  reportsDir,   \* files under ~/.bin/data/scripts-data/reports, in iterdir order
  backupsDir,   \* files under ~/.bin/data/backups/archives, in iterdir order
  scanned,      \* what the last scan call was given and what it returned
  rootExists,   \* StorageManager.storage_path exists (the volume is mounted)
  dirs,         \* the directories of the store that exist
  reg,          \* the five JSON documents of the store
  current_operation,  \* ArchiveManager.current_operation
  opDirs,       \* archives/<operation id>: the moved files and metadata.json
  ret,          \* the last call: its name, return value, and what it was given and wrote
  calls,        \* how many execute_move / compress_and_move calls returned True
  faults,       \* how many I/O errors the environment has raised so far
  items_to_trash,  \* TrashManager.items_to_trash
  fs,           \* the paths of the home tree that can be staged, with their content
  bundles,      \* trash/compressed/<filename>: the members of each tar.gz
  trashMeta,    \* trash/metadata/<filename>.json
  sealed,       \* per bundle: what was staged when it was written, and how each add went
  main,         \* main(): the command of this invocation and where it stands
  home,         \* the files under Path.home() that the cleaner can meet
  limpador,     \* LimpadorSistema: the lists of the last scan, and where the run stands
  pending       \* per concurrent call: where it stands and the index copy it loaded

scanVars == <<now, reportsDir, backupsDir, scanned>>
storageVars == <<rootExists, dirs, reg>>
archiveVars == <<current_operation, opDirs>>
trashVars == <<items_to_trash, fs, bundles, trashMeta, sealed>>
cleanerVars == <<home, limpador>>
managerVars == <<now, reportsDir, backupsDir, scanned, rootExists, dirs, reg,
                 current_operation, opDirs, ret, calls, faults,
                 items_to_trash, fs, bundles, trashMeta, sealed, main>>
vars == <<now, reportsDir, backupsDir, scanned, rootExists, dirs, reg,
          current_operation, opDirs, ret, calls, faults,
          items_to_trash, fs, bundles, trashMeta, sealed, main,
          home, limpador, pending>>

\* ------------------------------------------------------- sequence helpers
IsPrefix(s, t) == Len(s) <= Len(t) /\ SubSeq(t, 1, Len(s)) = s

RECURSIVE ConcatAll(_)
ConcatAll(ss) ==
  IF ss = <<>> THEN <<>> ELSE Head(ss) \o ConcatAll(Tail(ss))

Range(s) == { s[i] : i \in 1..Len(s) }

RECURSIVE SumSize(_)
SumSize(s) ==
  IF s = <<>> THEN 0 ELSE Head(s).size + SumSize(Tail(s))

Max(a, b) == IF a >= b THEN a ELSE b
Min(a, b) == IF a <= b THEN a ELSE b

\* list.sort(key=mtime, reverse=True): stable, equal keys keep their order
RECURSIVE InsertAsc(_, _)
InsertAsc(sorted, x) ==
  IF sorted = <<>> THEN <<x>>
  ELSE IF Head(sorted).mtime <= x.mtime
       THEN <<Head(sorted)>> \o InsertAsc(Tail(sorted), x)
       ELSE <<x>> \o sorted

RECURSIVE InsertDesc(_, _)
InsertDesc(sorted, x) ==
  IF sorted = <<>> THEN <<x>>
  ELSE IF Head(sorted).mtime >= x.mtime
       THEN <<Head(sorted)>> \o InsertDesc(Tail(sorted), x)
       ELSE <<x>> \o sorted

RECURSIVE SortAscFrom(_, _)
SortAscFrom(s, acc) ==
  IF s = <<>> THEN acc ELSE SortAscFrom(Tail(s), InsertAsc(acc, Head(s)))

RECURSIVE SortDescFrom(_, _)
SortDescFrom(s, acc) ==
  IF s = <<>> THEN acc ELSE SortDescFrom(Tail(s), InsertDesc(acc, Head(s)))

SortOldestFirst(s) == SortAscFrom(s, <<>>)

SortNewestFirst(s) == SortDescFrom(s, <<>>)

\* --------------------------------------------------- report scan (keep_days)
ReportCategories == {"sys"}
ReportSubdirs == <<"html", "raw">>

DateOf(mtime) == mtime \div TicksPerDay

Cutoff(keep_days) == now - keep_days * TicksPerDay

\* the distinct values of a sequence, in order of first appearance
\* (insertion order of the keys of a dict filled while iterating)
RECURSIVE FirstSeen(_, _)
FirstSeen(s, acc) ==
  IF s = <<>> THEN acc
  ELSE IF Head(s) \in Range(acc)
       THEN FirstSeen(Tail(s), acc)
       ELSE FirstSeen(Tail(s), Append(acc, Head(s)))

\* archive_manager.py:105-134: what one day-group contributes
SingletonNever(files_in_day, cutoff_date) == <<>>

SingletonMove(files_in_day, cutoff_date) ==
  IF files_in_day[1].mtime < cutoff_date THEN files_in_day ELSE <<>>

DuplicatesKeepOldest(files_in_day, cutoff_date) ==
  LET sorted == SortOldestFirst(files_in_day)
  IN IF sorted[1].mtime < cutoff_date THEN sorted ELSE Tail(sorted)

DuplicatesMove(files_in_day, cutoff_date) ==
  LET sorted == SortNewestFirst(files_in_day)
      most_recent == sorted[1]
      duplicates == Tail(sorted)
  IN IF most_recent.mtime < cutoff_date THEN sorted ELSE duplicates

DayGroupMove(files_in_day, cutoff_date) ==
  IF Len(files_in_day) <= 1
  THEN SingletonMove(files_in_day, cutoff_date)
  ELSE DuplicatesMove(files_in_day, cutoff_date)

\* archive_manager.py:65-134: one category/subdir directory
ScanSubdir(dir, category, subdir, cutoff_date) ==
  LET all_files == SelectSeq(dir, LAMBDA f : f.category = category /\ f.subdir = subdir)
      day_keys == FirstSeen([i \in 1..Len(all_files) |-> DateOf(all_files[i].mtime)], <<>>)
      by_date(k) == SelectSeq(all_files, LAMBDA f : DateOf(f.mtime) = k)
  IN ConcatAll([i \in 1..Len(day_keys) |-> DayGroupMove(by_date(day_keys[i]), cutoff_date)])

scan_old_reports(dir, keep_days) ==
  LET cutoff_date == Cutoff(keep_days)
      category_dirs == FirstSeen([i \in 1..Len(dir) |-> dir[i].category], <<>>)
      per_category(c) ==
        ConcatAll([j \in 1..Len(ReportSubdirs) |-> ScanSubdir(dir, c, ReportSubdirs[j], cutoff_date)])
  IN ConcatAll([i \in 1..Len(category_dirs) |-> per_category(category_dirs[i])])

\* -------------------------------------------------- backup scan (keep_count)
BackupSuffixes == {".gz", ".zip", ".tar"}

\* a backup file name is its stem split at "_" (after ".tar" is stripped) plus its suffix
BackupStems == { <<"backup">>, <<"backup", "Projects", "t1">>, <<"backup", "Videos", "t1">> }

\* the file names of a listing: archives with and without a category, and a
\* file that is no archive
BackupNames ==
  { [parts |-> p, suffix |-> ".gz"] : p \in BackupStems }
    \cup { [parts |-> <<"backup", "Projects", "t1">>, suffix |-> ".log"] }

IsBackupArchive(f) == f.suffix \in BackupSuffixes /\ Len(f.parts) >= 2

CategoryOf(f) == f.parts[2]

TakeFirst(s, n) == SubSeq(s, 1, Min(n, Len(s)))

\* backups[keep_count:]
DropFirst(s, n) == SubSeq(s, Min(n, Len(s)) + 1, Len(s))

BackupGroupKeepOldest(backups, keep_count) ==
  DropFirst(SortOldestFirst(backups), keep_count)

BackupGroupMove(backups, keep_count) ==
  DropFirst(SortNewestFirst(backups), keep_count)

scan_old_backups(dir, keep_count) ==
  LET eligible == SelectSeq(dir, IsBackupArchive)
      categories == FirstSeen([i \in 1..Len(eligible) |-> CategoryOf(eligible[i])], <<>>)
      backup_groups(c) == SelectSeq(eligible, LAMBDA f : CategoryOf(f) = c)
  IN ConcatAll([i \in 1..Len(categories) |-> BackupGroupMove(backup_groups(categories[i]), keep_count)])

\* the record of a call that is given no file and writes none
Ret(op, ok) ==
  [op |-> op, ok |-> ok, msg |-> "", file |-> <<>>, item |-> <<>>, files |-> <<>>]

\* ------------------------------------------------------- StorageManager
RegNames == {"config", "policies", "usage", "archives_index", "trash_manifest"}

DirNames == {"archives", "trash", "compressed", "metadata", "recovery", "config"}

\* storage_manager.py:32-36: the directory each document lives in
RegDir(r) ==
  CASE r = "archives_index" -> "archives"
    [] r = "trash_manifest" -> "trash"
    [] OTHER -> "config"

DefaultKeepDays == 15
DefaultKeepCount == 2

default_policies ==
  [c \in {"reports", "backups", "logs", "node_modules", "caches"} |->
     CASE c = "reports" -> [keep_days |-> 15]
       [] c = "backups" -> [keep_count |-> 2]
       [] c = "logs" -> [keep_days |-> 7]
       [] c = "node_modules" -> [keep_days |-> 30]
       [] OTHER -> [action |-> "delete"]]

NoUsage == [total_operations |-> 0, total_moved_mb |-> 0, total_trashed_mb |-> 0]

\* what a document holds when read as {} and completed by the .get defaults
\* and the "'operations' not in index" / "'items' not in manifest" tests
EmptyBody(r) ==
  CASE r = "usage" -> NoUsage
    [] r = "archives_index" -> <<>>
    [] r = "trash_manifest" -> <<>>
    [] r = "policies" -> <<>>
    [] OTHER -> "none"

\* storage_manager.py:106-140: the documents initialize_storage writes
DefaultBody(r) ==
  CASE r = "usage" -> NoUsage
    [] r = "archives_index" -> <<>>
    [] r = "trash_manifest" -> <<>>
    [] r = "policies" -> default_policies
    [] OTHER -> "default_config"

Absent(r) == [state |-> "absent", body |-> EmptyBody(r)]

\* an existing file that json.load rejects (truncated or cut short)
Partial(r) == [state |-> "corrupt", body |-> EmptyBody(r)]

\* _load_json: a missing or unreadable document reads as {}
load_json(rg, r) == IF rg[r].state = "ok" THEN rg[r].body ELSE EmptyBody(r)

\* _save_json opens the file with mode 'w' and dumps into it; every error
\* is caught and printed.  The write can succeed, fail at open (file
\* untouched) or fail after the truncation (file cut short).
SaveOutcomes == {"ok", "fail_open", "partial"}

save_json(rg, ds, r, body, outcome) ==
  IF RegDir(r) \notin ds \/ outcome = "fail_open"
  THEN rg
  ELSE IF outcome = "partial"
       THEN [rg EXCEPT ![r] = Partial(r)]
       ELSE [rg EXCEPT ![r] = [state |-> "ok", body |-> body]]

\* increment_usage, lines 226-228: the counters of the copy that was loaded
Incremented(usage, moved_mb, trashed_mb) ==
  [total_operations |-> usage.total_operations + 1,
   total_moved_mb |-> usage.total_moved_mb + moved_mb,
   total_trashed_mb |-> usage.total_trashed_mb + trashed_mb]

\* increment_usage (storage_manager.py:223-233); sizes stand for megabytes
increment_usage(rg, ds, moved_mb, trashed_mb, outcome) ==
  LET usage == load_json(rg, "usage")
  IN save_json(rg, ds, "usage", Incremented(usage, moved_mb, trashed_mb), outcome)

\* get_policies (storage_manager.py:208-210): the policies document as read
get_policies(rg) == load_json(rg, "policies")

\* update_policy (lines 212-221): load, set one category, save; the policy is
\* any dict and _save_json reports no error, so True is returned
update_policy(category, policy, outcome) ==
  LET policies == get_policies(reg)
  IN /\ reg' = save_json(reg, dirs, "policies", (category :> policy) @@ policies, outcome)
     /\ ret' = Ret("update_policy", TRUE)

\* initialize_storage, lines 106-140: each document that does not exist is
\* written with its default, one after the other
\* "if not self.<document>.exists()": an existing document is left alone
MissingAlways(rg, r) == TRUE

Missing(rg, r) == rg[r].state = "absent"

RECURSIVE InitDocs(_, _, _, _)
InitDocs(rg, ds, names, outcome) ==
  IF names = <<>> THEN rg
  ELSE LET r == Head(names)
           next == IF Missing(rg, r)
                   THEN save_json(rg, ds, r, DefaultBody(r), outcome[r])
                   ELSE rg
       IN InitDocs(next, ds, Tail(names), outcome)

InitOrder == <<"config", "policies", "usage", "archives_index", "trash_manifest">>

\* lines 96-98: mkdir is called only for a directory that does not exist
initialize_storage(mkdir_ok, outcome) ==
  IF ~rootExists \/ (dirs # DirNames /\ ~mkdir_ok)
  THEN /\ ret' = Ret("initialize_storage", FALSE)
       /\ UNCHANGED <<rootExists, dirs, reg>>
  ELSE /\ dirs' = DirNames
       /\ reg' = InitDocs(reg, DirNames, InitOrder, outcome)
       /\ ret' = Ret("initialize_storage", TRUE)
       /\ UNCHANGED rootExists

\* the environment raises at most MaxFaults I/O errors that leave a call
\* half done in one behaviour; an error that stops a call before it has
\* changed anything is not counted
Cost(outcome) == IF outcome = "ok" THEN 0 ELSE 1

Flag(ok) == IF ok THEN 0 ELSE 1

Raise(n) ==
  /\ faults + n <= MaxFaults
  /\ faults' = faults + n

InitOutcomes ==
  { o \in [RegNames -> SaveOutcomes] :
      Cardinality({ r \in RegNames : o[r] # "ok" }) <= MaxFaults - faults }

InitializeStorage ==
  \E mkdir_ok \in BOOLEAN, outcome \in InitOutcomes :
    /\ initialize_storage(mkdir_ok, outcome)
    /\ Raise(Cardinality({ r \in RegNames : outcome[r] # "ok" }))
    /\ UNCHANGED <<scanVars, cleanerVars, pending, archiveVars, calls, trashVars, main>>

\* the categories and policy dicts handed to update_policy
PolicyCategories == {"reports", "backups", "custom"}

PolicyInputs == { [keep_days |-> 1], [keep_count |-> 1], [keep_days |-> 1, keep_count |-> 1] }

UpdatePolicy ==
  \E category \in PolicyCategories, policy \in PolicyInputs, outcome \in SaveOutcomes :
    /\ Raise(Cost(outcome))
    /\ update_policy(category, policy, outcome)
    /\ UNCHANGED <<scanVars, cleanerVars, pending, rootExists, dirs, archiveVars, calls, trashVars, main>>

StoreInit(root) ==
  /\ rootExists = root
  /\ dirs = {}
  /\ reg = [r \in RegNames |-> Absent(r)]

\* the store as a run of initialize_storage without an error leaves it
StoreReady ==
  /\ rootExists = TRUE
  /\ dirs = DirNames
  /\ reg = InitDocs([r \in RegNames |-> Absent(r)], DirNames, InitOrder,
                    [r \in RegNames |-> "ok"])

\* --------------------------------------------------------- ArchiveManager
NoOperation ==
  [status |-> "none", id |-> <<>>, files |-> <<>>, total_files |-> 0, total_size |-> 0]

OperationNames == {"", "synergic"}

OperationIdNoLabel(operation_name, timestamp) == <<"moving", timestamp>>

\* prepare_move_operation: "moving-<name>-<timestamp>" or "moving-<timestamp>"
OperationId(operation_name, timestamp) ==
  IF operation_name # "" THEN <<"moving", operation_name, timestamp>>
  ELSE <<"moving", timestamp>>

prepare_move_operation(files, operation_name) ==
  IF files = <<>>
  THEN /\ ret' = Ret("prepare_move_operation", FALSE)
       /\ UNCHANGED current_operation
  ELSE /\ current_operation' =
            [status |-> "prepared",
             id |-> OperationId(operation_name, now),
             files |-> files,
             total_files |-> Len(files),
             total_size |-> SumSize(files)]
       /\ ret' = Ret("prepare_move_operation", TRUE)

\* the candidate lists handed to prepare_move_operation are scan results
\* (main.py:312-317, 329-332, 352-359)
ScanResults ==
  { scan_old_reports(reportsDir, keep_days) : keep_days \in {0, DefaultKeepDays} }
    \cup { scan_old_backups(backupsDir, DefaultKeepCount) }

PrepareMoveOperation ==
  \E files \in ScanResults, operation_name \in OperationNames :
    /\ prepare_move_operation(files, operation_name)
    /\ UNCHANGED <<scanVars, cleanerVars, pending, storageVars, opDirs, calls, faults, trashVars, main>>

\* execute_move, lines 304-314: where a candidate goes in the operation directory
Destination(f) ==
  IF f.type = "report" THEN <<"reports", f.category, f.subdir, f.id>>
  ELSE IF f.type = "backup" THEN <<"backups", f.id>>
  ELSE <<"other", f.id>>

SourceIds == { f.id : f \in Range(reportsDir) \cup Range(backupsDir) }

NoMetadata ==
  [written |-> FALSE, operation_id |-> <<>>, total_files |-> 0, total_size |-> 0,
   files |-> <<>>, errors |-> <<>>]

\* _update_archives_index: load, append one row, save
IndexRow(metadata) ==
  [operation_id |-> metadata.operation_id,
   total_files |-> metadata.total_files,
   total_size |-> metadata.total_size,
   location |-> <<"archives", metadata.operation_id>>]

update_archives_index(rg, ds, metadata, outcome) ==
  LET index == load_json(rg, "archives_index")
  IN save_json(rg, ds, "archives_index", Append(index, IndexRow(metadata)), outcome)

AttemptedUntilFailure(files, move_fails) ==
  LET bad == { i \in 1..Len(files) : files[i].id \notin SourceIds \/ files[i].id \in move_fails }
  IN IF bad = {} THEN files
     ELSE SubSeq(files, 1, CHOOSE i \in bad : \A j \in bad : i <= j)

\* execute_move, lines 299-327: the try is inside the loop, so the loop goes on
\* to the next candidate after a move that raised
Attempted(files, move_fails) == files

execute_move(confirmed, mkdir_ok, move_fails, meta_ok, idx_outcome, usage_outcome) ==
  LET op == current_operation
      moves(f) == f.id \in SourceIds /\ f.id \notin move_fails
      attempted == Attempted(op.files, move_fails)
      moved_files == SelectSeq(attempted, moves)
      failed == SelectSeq(attempted, LAMBDA f : ~moves(f))
      moved_ids == { f.id : f \in Range(moved_files) }
      metadata == [written |-> TRUE,
                   operation_id |-> op.id,
                   total_files |-> Len(moved_files),
                   total_size |-> SumSize(moved_files),
                   files |-> [i \in 1..Len(moved_files) |->
                                [info |-> moved_files[i], moved |-> TRUE,
                                 destination |-> Destination(moved_files[i])]],
                   errors |-> [i \in 1..Len(failed) |-> failed[i].id]]
      before == IF op.id \in DOMAIN opDirs THEN opDirs[op.id]
                ELSE [files |-> {}, metadata |-> NoMetadata]
      ds == dirs \cup {"archives"}
      indexed == update_archives_index(reg, ds, metadata, idx_outcome)
  IN IF op.status = "none" \/ ~confirmed \/ ~mkdir_ok
     THEN /\ ret' = Ret("execute_move", FALSE)
          /\ UNCHANGED <<reportsDir, backupsDir, storageVars, opDirs, calls>>
     ELSE /\ rootExists' = TRUE
          /\ dirs' = ds
          /\ reportsDir' = SelectSeq(reportsDir, LAMBDA f : f.id \notin moved_ids)
          /\ backupsDir' = SelectSeq(backupsDir, LAMBDA f : f.id \notin moved_ids)
          /\ opDirs' = (op.id :> [files |-> before.files \cup { Destination(f) : f \in Range(moved_files) },
                                  metadata |-> IF meta_ok THEN metadata ELSE before.metadata])
                       @@ opDirs
          /\ IF meta_ok
             THEN /\ reg' = increment_usage(indexed, ds, metadata.total_size, 0, usage_outcome)
                  /\ ret' = Ret("execute_move", TRUE)
                  /\ calls' = [calls EXCEPT !.execute_ok = @ + 1]
             ELSE /\ reg' = reg
                  /\ ret' = Ret("execute_move", FALSE)
                  /\ calls' = calls

CandidateIds == { current_operation.files[i].id : i \in 1..Len(current_operation.files) }

ExecuteMove ==
  \E confirmed \in BOOLEAN, mkdir_ok \in BOOLEAN, meta_ok \in BOOLEAN,
     move_fails \in SUBSET CandidateIds,
     idx_outcome \in SaveOutcomes, usage_outcome \in SaveOutcomes :
    /\ calls.execute_ok < MaxOps
    /\ Raise(Cardinality(move_fails) + Flag(meta_ok) + Cost(idx_outcome) + Cost(usage_outcome))
    /\ execute_move(confirmed, mkdir_ok, move_fails, meta_ok, idx_outcome, usage_outcome)
    /\ UNCHANGED <<now, cleanerVars, pending, scanned, current_operation, trashVars, main>>

Tick ==
  /\ now < MaxTime + 1 + MaxClock
  /\ now' = now + 1
  /\ UNCHANGED <<reportsDir, backupsDir, scanned, cleanerVars, pending, storageVars, archiveVars,
                 ret, calls, faults,
                 trashVars, main>>

\* ----------------------------------------------------------- TrashManager
available_tags ==
  {"OLD-REPORTS", "OLD-BACKUPS", "ARCHIVED", "NODE-MODULES", "MOVED", "LOGS", "TEMP", "CUSTOM"}

\* names are character sequences, so that substring tests and lower() are computed
TrashPaths ==
  { [dir |-> "d1", name |-> <<"a">>],
    [dir |-> "d2", name |-> <<"a">>],
    [dir |-> "d1", name |-> <<"A", "b">>] }

ContentOf(p) ==
  CASE p.dir = "d2" -> "second"
    [] p.name = <<"a">> -> "first"
    [] OTHER -> "third"

\* _get_path_size of a regular file
SizeOf(content) == IF content = "third" THEN 2 ELSE 1

\* add_items, lines 48-75
RECURSIVE StageAll(_, _, _)
StageAll(items, paths, tag) ==
  IF paths = <<>> THEN items
  ELSE LET path == Head(paths)
           item == [path |-> path, name |-> path.name,
                    size |-> SizeOf(fs[path].content), tag |-> tag]
       IN IF ~fs[path].exists
          THEN StageAll(items, Tail(paths), tag)
          ELSE StageAll(Append(items, item), Tail(paths), tag)

add_items(paths, tag) ==
  LET used == IF tag \notin available_tags THEN "CUSTOM" ELSE tag
      staged == StageAll(items_to_trash, paths, used)
  IN /\ items_to_trash' = staged
     /\ ret' = Ret("add_items", Len(staged) > Len(items_to_trash))

\* every caller hands add_items a list of one path
AddItems(tags) ==
  \E path \in TrashPaths, tag \in tags :
    /\ calls.seal_ok < MaxSeals
    /\ Len(items_to_trash) < MaxStaged
    /\ add_items(<<path>>, tag)
    /\ UNCHANGED <<scanVars, cleanerVars, pending, storageVars, archiveVars, calls, faults,
                   fs, bundles, trashMeta, sealed, main>>

\* compress_and_move, lines 134-139: max(tag_counts, key=tag_counts.get)
\* returns the first key, in insertion order, that has the largest count
TagCount(items, tag) == Cardinality({ i \in 1..Len(items) : items[i].tag = tag })

MainTagLastSeen(items) ==
  LET keys == FirstSeen([i \in 1..Len(items) |-> items[i].tag], <<>>)
      best == CHOOSE k \in 1..Len(keys) :
                /\ \A j \in 1..Len(keys) : TagCount(items, keys[j]) <= TagCount(items, keys[k])
                /\ \A j \in (k + 1)..Len(keys) : TagCount(items, keys[j]) < TagCount(items, keys[k])
  IN keys[best]

MainTag(items) ==
  LET keys == FirstSeen([i \in 1..Len(items) |-> items[i].tag], <<>>)
      best == CHOOSE k \in 1..Len(keys) :
                /\ \A j \in 1..Len(keys) : TagCount(items, keys[j]) <= TagCount(items, keys[k])
                /\ \A j \in 1..(k - 1) : TagCount(items, keys[j]) < TagCount(items, keys[k])
  IN keys[best]

\* lines 141-146: "[<main_tag>]_<custom_name>_<timestamp>.tar.gz"
BundleFilename(main_tag, custom_name, timestamp) ==
  IF custom_name # "" THEN <<main_tag, custom_name, timestamp>>
  ELSE <<main_tag, "trash", timestamp>>

\* output_path.stat().st_size: the archive is never empty
CompressedSize(members) == 1 + Len(members)

\* _update_trash_manifest: load, append one entry, save
update_trash_manifest(rg, ds, metadata, outcome) ==
  LET manifest == load_json(rg, "trash_manifest")
  IN save_json(rg, ds, "trash_manifest", Append(manifest, metadata), outcome)

\* lines 196-205: the originals that are removed
Removed(items, added, del_fails) ==
  { items[i].path : i \in { j \in 1..Len(items) : j \notin del_fails } }

compress_and_move(custom_name, confirmed, open_ok, add_fails, meta_ok, manifest_outcome, del_fails, usage_outcome) ==
  LET items == items_to_trash
      main_tag == MainTag(items)
      filename == BundleFilename(main_tag, custom_name, now)
      added == { i \in 1..Len(items) : fs[items[i].path].exists /\ i \notin add_fails }
      member(i) == [name |-> items[i].name, content |-> fs[items[i].path].content]
      order == SelectSeq([i \in 1..Len(items) |-> i], LAMBDA i : i \in added)
      members == [k \in 1..Len(order) |-> member(order[k])]
      compressed_size == CompressedSize(members)
      metadata == [filename |-> filename,
                   main_tag |-> main_tag,
                   total_items |-> Len(items),
                   original_size |-> SumSize(items),
                   compressed_size |-> compressed_size,
                   items |-> [i \in 1..Len(items) |->
                                [name |-> items[i].name, tag |-> items[i].tag,
                                 size |-> items[i].size]]]
      staged == [i \in 1..Len(items) |->
                   [path |-> items[i].path, name |-> items[i].name,
                    existed |-> fs[items[i].path].exists,
                    content |-> fs[items[i].path].content,
                    added |-> i \in added]]
      removed == Removed(items, added, del_fails)
      listed == update_trash_manifest(reg, dirs, metadata, manifest_outcome)
  IN IF items = <<>> \/ ~confirmed \/ ~open_ok \/ "compressed" \notin dirs
     THEN /\ ret' = Ret("compress_and_move", FALSE)
          /\ UNCHANGED <<reg, items_to_trash, fs, bundles, trashMeta, sealed, calls>>
     ELSE /\ bundles' = (filename :> members) @@ bundles
          /\ IF ~meta_ok \/ "metadata" \notin dirs
             THEN /\ sealed' = (filename :> [ok |-> FALSE, staged |-> staged]) @@ sealed
                  /\ ret' = [Ret("compress_and_move", FALSE) EXCEPT !.file = filename]
                  /\ UNCHANGED <<reg, items_to_trash, fs, trashMeta, calls>>
             ELSE /\ sealed' = (filename :> [ok |-> TRUE, staged |-> staged]) @@ sealed
                  /\ trashMeta' = trashMeta \cup {filename}
                  /\ fs' = [p \in TrashPaths |->
                              IF p \in removed THEN [fs[p] EXCEPT !.exists = FALSE] ELSE fs[p]]
                  /\ reg' = increment_usage(listed, dirs, 0, compressed_size, usage_outcome)
                  /\ items_to_trash' = <<>>
                  /\ calls' = [calls EXCEPT !.seal_ok = @ + 1]
                  /\ ret' = [Ret("compress_and_move", TRUE) EXCEPT !.file = filename]

CompressAndMove(names) ==
  \E custom_name \in names, confirmed \in BOOLEAN, open_ok \in BOOLEAN,
     meta_ok \in BOOLEAN,
     add_fails \in SUBSET (1..Len(items_to_trash)),
     del_fails \in SUBSET (1..Len(items_to_trash)),
     manifest_outcome \in SaveOutcomes, usage_outcome \in SaveOutcomes :
    /\ calls.seal_ok < MaxSeals
    /\ Raise(Cardinality(add_fails) + Flag(meta_ok)
             + Cost(manifest_outcome) + Cardinality(del_fails) + Cost(usage_outcome))
    /\ compress_and_move(custom_name, confirmed, open_ok, add_fails, meta_ok,
                         manifest_outcome, del_fails, usage_outcome)
    /\ UNCHANGED <<scanVars, cleanerVars, pending, rootExists, dirs, archiveVars, main>>

\* ---------------------------------------------------------- RestoreManager
Lower(c) == IF c = "A" THEN "a" ELSE IF c = "B" THEN "b" ELSE c

LowerName(name) == [i \in 1..Len(name) |-> Lower(name[i])]

\* Python's "x in y" on strings
IsSubstring(x, y) ==
  \E i \in 0..(Len(y) - Len(x)) : SubSeq(y, i + 1, i + Len(x)) = x

MatchesCase(item_name, member) == IsSubstring(item_name, member.name)

\* restore_manager.py:316: item_name.lower() in member.name.lower()
Matches(item_name, member) ==
  IsSubstring(LowerName(item_name), LowerName(member.name))

\* tar.extract(member, path=dest_path): the file is written under the member's name
ExtractMember(out, member, item_name) == (member.name :> member.content) @@ out

RECURSIVE ExtractMatching(_, _, _)
ExtractMatching(members, item_name, out) ==
  IF members = <<>> THEN out
  ELSE IF Matches(item_name, Head(members))
       THEN ExtractMatching(Tail(members), item_name, ExtractMember(out, Head(members), item_name))
       ELSE ExtractMatching(Tail(members), item_name, out)

ItemNames == { p.name : p \in TrashPaths } \cup { <<"b">> }

MissingBundle == <<"CUSTOM", "missing", 0>>

ExtractMessageMiss(read_ok, found) == IF read_ok /\ found THEN "" ELSE "item not found"

\* extract_item_from_trash, lines 319-333: what is printed before returning
ExtractMessage(read_ok, found) ==
  IF ~read_ok THEN "error" ELSE IF found THEN "" ELSE "item not found"

\* in the three restore methods dest_path.mkdir (lines 196, 266, 304) comes after
\* the exists() test and before the try: an error of mkdir is not caught and
\* leaves the method as an exception ("raised"); what the try catches is
\* printed as an error and returned as False ("error")
extract_item_from_trash(trash_filename, item_name, mkdir_ok, read_ok) ==
  LET members == bundles[trash_filename]
      found == \E i \in 1..Len(members) : Matches(item_name, members[i])
      out == ExtractMatching(members, item_name, <<>>)
  IN IF trash_filename \notin DOMAIN bundles
     THEN /\ ret' = [op |-> "extract_item_from_trash", ok |-> FALSE,
                     msg |-> "bundle not found",
                     file |-> trash_filename, item |-> item_name, files |-> <<>>]
          /\ dirs' = dirs
     ELSE IF ~mkdir_ok
     THEN /\ ret' = [op |-> "extract_item_from_trash", ok |-> FALSE, msg |-> "raised",
                     file |-> trash_filename, item |-> item_name, files |-> <<>>]
          /\ dirs' = dirs
     ELSE /\ dirs' = dirs \cup {"recovery"}
          /\ ret' = [op |-> "extract_item_from_trash", ok |-> (read_ok /\ found),
                     msg |-> ExtractMessage(read_ok, found),
                     file |-> trash_filename, item |-> item_name,
                     files |-> IF read_ok THEN out ELSE <<>>]

ExtractItemFromTrash ==
  \E trash_filename \in DOMAIN bundles \cup {MissingBundle},
     item_name \in ItemNames, mkdir_ok \in BOOLEAN, read_ok \in BOOLEAN :
    /\ extract_item_from_trash(trash_filename, item_name, mkdir_ok, read_ok)
    /\ UNCHANGED <<scanVars, cleanerVars, pending, rootExists, reg, archiveVars, calls, faults,
                   items_to_trash, fs, bundles, trashMeta, sealed, main>>

\* restore_from_trash opens the bundle with mode 'r:gz': reading consumes nothing
ConsumedBundles(trash_filename) ==
  [f \in DOMAIN bundles \ {trash_filename} |-> bundles[f]]

KeptBundles(trash_filename) == bundles

\* tar.extractall(path=dest_path)
RECURSIVE ExtractAll(_, _)
ExtractAll(members, out) ==
  IF members = <<>> THEN out
  ELSE ExtractAll(Tail(members), ExtractMember(out, Head(members), <<>>))

restore_from_trash(trash_filename, mkdir_ok, read_ok) ==
  IF trash_filename \notin DOMAIN bundles
  THEN /\ ret' = [op |-> "restore_from_trash", ok |-> FALSE,
                  msg |-> "bundle not found",
                  file |-> trash_filename, item |-> <<>>, files |-> <<>>]
       /\ UNCHANGED <<dirs, bundles>>
  ELSE IF ~mkdir_ok
  THEN /\ ret' = [op |-> "restore_from_trash", ok |-> FALSE, msg |-> "raised",
                  file |-> trash_filename, item |-> <<>>, files |-> <<>>]
       /\ UNCHANGED <<dirs, bundles>>
  ELSE /\ dirs' = dirs \cup {"recovery"}
       /\ bundles' = KeptBundles(trash_filename)
       /\ ret' = [op |-> "restore_from_trash", ok |-> read_ok,
                  msg |-> IF read_ok THEN "" ELSE "error",
                  file |-> trash_filename, item |-> <<>>,
                  files |-> IF read_ok THEN ExtractAll(bundles[trash_filename], <<>>)
                            ELSE <<>>]

RestoreFromTrash ==
  \E trash_filename \in DOMAIN bundles \cup {MissingBundle}, mkdir_ok \in BOOLEAN, read_ok \in BOOLEAN :
    /\ restore_from_trash(trash_filename, mkdir_ok, read_ok)
    /\ UNCHANGED <<scanVars, cleanerVars, pending, rootExists, reg, archiveVars, calls, faults,
                   items_to_trash, fs, trashMeta, sealed, main>>

\* file names under the operation directory: execute_move keeps source.name
\* (archive_manager.py:313-314); two candidates of one directory have different
\* names, candidates of different directories may share one, and nothing keeps
\* a report from being called metadata.json
MetadataName == <<"m">>

MetadataPath == <<"metadata.json">>

FileName(id) ==
  CASE id = 1 -> <<"a">>
    [] id = 2 -> <<"A", "b">>
    [] id = 3 -> <<"a">>
    [] OTHER -> MetadataName

NameAt(path) == IF path = MetadataPath THEN MetadataName ELSE FileName(path[Len(path)])

\* os.walk(archive_dir): every file of the operation directory
ArchiveTree(operation_id) ==
  opDirs[operation_id].files
    \cup (IF opDirs[operation_id].metadata.written THEN {MetadataPath} ELSE {})

\* lines 207-215: shutil.copy2(source, dest_path / file) for every file whose
\* name matches; files of one name land on one destination, and the one that
\* os.walk reaches last stays
FlatCopies(sources) ==
  { dest \in [{ NameAt(p) : p \in sources } -> sources] :
      \A n \in { NameAt(p) : p \in sources } : NameAt(dest[n]) = n }

\* lines 225-236: every file not called metadata.json, at its relative path
Skipped(path) == NameAt(path) = MetadataName

TreeCopies(sources) ==
  LET kept == { p \in sources : ~Skipped(p) }
  IN { [p \in kept |-> p] }

MissingOperation == <<"moving", "missing", 0>>

restore_from_archive(operation_id, item_name, mkdir_ok, copy_ok, dest) ==
  LET tree == ArchiveTree(operation_id)
      hits == { p \in tree : IsSubstring(LowerName(item_name), LowerName(NameAt(p))) }
      result(ok, msg, files) ==
        [op |-> "restore_from_archive", ok |-> ok, msg |-> msg,
         file |-> operation_id, item |-> item_name, files |-> files]
  IN IF operation_id \notin DOMAIN opDirs
     THEN /\ ret' = result(FALSE, "archive not found", <<>>)
          /\ dirs' = dirs
     ELSE IF ~mkdir_ok
     THEN /\ ret' = result(FALSE, "raised", <<>>)
          /\ dirs' = dirs
     ELSE /\ dirs' = dirs \cup {"recovery"}
          /\ IF item_name # <<>>
             THEN IF hits = {}
                  THEN ret' = result(FALSE, "item not found", <<>>)
                  ELSE IF ~copy_ok
                       THEN ret' = result(FALSE, "error", <<>>)
                       ELSE /\ dest \in FlatCopies(hits)
                            /\ ret' = result(TRUE, "", dest)
             ELSE IF ~copy_ok /\ \E p \in tree : ~Skipped(p)
                  THEN ret' = result(FALSE, "error", <<>>)
                  ELSE /\ dest \in TreeCopies(tree)
                       /\ ret' = result(TRUE, "", dest)

\* --item of main.py; <<>> stands for no --item
ArchiveItemNames == {<<>>, <<"a">>, <<"b">>, MetadataName, <<"z">>}

Destinations(operation_id, item_name) ==
  IF operation_id \notin DOMAIN opDirs THEN {<<>>}
  ELSE LET tree == ArchiveTree(operation_id)
           hits == { p \in tree : IsSubstring(LowerName(item_name), LowerName(NameAt(p))) }
       IN IF item_name # <<>> THEN FlatCopies(hits) \cup {<<>>} ELSE TreeCopies(tree)

RestoreFromArchive ==
  \E operation_id \in DOMAIN opDirs \cup {MissingOperation},
     item_name \in ArchiveItemNames, mkdir_ok \in BOOLEAN, copy_ok \in BOOLEAN :
    \E dest \in Destinations(operation_id, item_name) :
      /\ restore_from_archive(operation_id, item_name, mkdir_ok, copy_ok, dest)
      /\ UNCHANGED <<scanVars, cleanerVars, pending, rootExists, reg, archiveVars, calls, faults, trashVars, main>>

\* execute_move when no I/O call raises
ExecuteNoError ==
  \E confirmed \in BOOLEAN :
    /\ calls.execute_ok < MaxOps
    /\ execute_move(confirmed, TRUE, {}, TRUE, "ok", "ok")
    /\ UNCHANGED <<now, cleanerVars, pending, scanned, current_operation, faults, trashVars, main>>

\* compress_and_move when no I/O call raises
SealNoError(names) ==
  \E custom_name \in names, confirmed \in BOOLEAN :
    /\ calls.seal_ok < MaxSeals
    /\ compress_and_move(custom_name, confirmed, TRUE, {}, TRUE, "ok", {}, "ok")
    /\ UNCHANGED <<scanVars, cleanerVars, pending, rootExists, dirs, archiveVars, faults, main>>

\* ------------------------------------------------------------------ main
\* one invocation of main() runs one command; the commands that change the
\* store or the sources are --move --synergic, --trash and --restore-trash --item
Commands == {"move", "trash", "restore_trash"}

Idle == [pc |-> "done", cmd |-> "", init_ok |-> FALSE, run |-> 0]

At(pc) == [main EXCEPT !.pc = pc]

\* a new process: parse_args, and managers built afresh
MainStart ==
  \E cmd \in Commands :
    /\ main.pc = "done"
    /\ main.run < MaxRuns
    /\ main' = [pc |-> "start", cmd |-> cmd, init_ok |-> FALSE, run |-> main.run + 1]
    /\ current_operation' = NoOperation
    /\ items_to_trash' = <<>>
    /\ UNCHANGED <<scanVars, cleanerVars, pending, storageVars, opDirs, ret, calls, faults,
                   fs, bundles, trashMeta, sealed>>

\* lines 226-243: the value initialize_storage returns is dropped
MainLoad ==
  \E mkdir_ok \in BOOLEAN, outcome \in InitOutcomes :
    /\ main.pc = "start"
    /\ Raise(Cardinality({ r \in RegNames : outcome[r] # "ok" }))
    /\ initialize_storage(mkdir_ok, outcome)
    /\ main' = [main EXCEPT !.pc = "dispatch", !.init_ok = ret'.ok]
    /\ UNCHANGED <<scanVars, cleanerVars, pending, archiveVars, calls, trashVars>>

\* lines 306-322: --move --synergic, up to the confirmation
MainMove ==
  LET all_files == scan_old_reports(reportsDir, DefaultKeepDays)
                     \o scan_old_backups(backupsDir, DefaultKeepCount)
  IN /\ main.pc = "dispatch"
     /\ main.cmd = "move"
     /\ IF all_files # <<>>
        THEN /\ prepare_move_operation(all_files, "synergic")
             /\ main' = At("execute")
        ELSE /\ main' = At("done")
             /\ UNCHANGED <<ret, current_operation>>
     /\ UNCHANGED <<scanVars, cleanerVars, pending, storageVars, opDirs, calls, faults, trashVars>>

\* line 320: archive_manager.execute_move()
MainExecute ==
  \E confirmed \in BOOLEAN, mkdir_ok \in BOOLEAN, meta_ok \in BOOLEAN,
     move_fails \in SUBSET CandidateIds,
     idx_outcome \in SaveOutcomes, usage_outcome \in SaveOutcomes :
    /\ main.pc = "execute"
    /\ Raise(Cardinality(move_fails) + Flag(meta_ok) + Cost(idx_outcome) + Cost(usage_outcome))
    /\ execute_move(confirmed, mkdir_ok, move_fails, meta_ok, idx_outcome, usage_outcome)
    /\ main' = At("done")
    /\ UNCHANGED <<now, cleanerVars, pending, scanned, current_operation, trashVars>>

\* lines 294-301: --trash <path>, up to the confirmation
MainTrash ==
  \E trash_path \in TrashPaths :
    /\ main.pc = "dispatch"
    /\ main.cmd = "trash"
    /\ IF ~fs[trash_path].exists
       THEN /\ main' = At("done")
            /\ UNCHANGED <<ret, items_to_trash>>
       ELSE /\ add_items(<<trash_path>>, "MOVED")
            /\ main' = At("seal")
    /\ UNCHANGED <<scanVars, cleanerVars, pending, storageVars, archiveVars, calls, faults,
                   fs, bundles, trashMeta, sealed>>

\* line 302: trash_manager.compress_and_move()
MainSeal ==
  \E confirmed \in BOOLEAN, open_ok \in BOOLEAN, meta_ok \in BOOLEAN,
     add_fails \in SUBSET (1..Len(items_to_trash)),
     del_fails \in SUBSET (1..Len(items_to_trash)),
     manifest_outcome \in SaveOutcomes, usage_outcome \in SaveOutcomes :
    /\ main.pc = "seal"
    /\ Raise(Cardinality(add_fails) + Flag(meta_ok)
             + Cost(manifest_outcome) + Cardinality(del_fails) + Cost(usage_outcome))
    /\ compress_and_move("", confirmed, open_ok, add_fails, meta_ok,
                         manifest_outcome, del_fails, usage_outcome)
    /\ main' = At("done")
    /\ UNCHANGED <<scanVars, cleanerVars, pending, rootExists, dirs, archiveVars>>

\* lines 281-287: --restore-trash <file> --item <name>
MainRestoreTrash ==
  \E trash_filename \in DOMAIN bundles \cup {MissingBundle},
     item_name \in ItemNames, mkdir_ok \in BOOLEAN, read_ok \in BOOLEAN :
    /\ main.pc = "dispatch"
    /\ main.cmd = "restore_trash"
    /\ extract_item_from_trash(trash_filename, item_name, mkdir_ok, read_ok)
    /\ main' = At("done")
    /\ UNCHANGED <<scanVars, cleanerVars, pending, rootExists, reg, archiveVars, calls, faults,
                   items_to_trash, fs, bundles, trashMeta, sealed>>

\* ------------------------------------------------------ the system cleaner
\* A path under Path.home() is the sequence of the pieces of its string,
\* with "/" between its components, so that str.startswith() is the prefix
\* test on sequences: ~/.config2/a.tmp is <<".config", "2", "/", "a", ".tmp">>.
Sep == "/"

\* three of the eight entries of protected_dirs
protected_dirs == { <<".config">>, <<".local", Sep, "share">>, <<".ssh">> }

is_protected_path(path) == \E protected \in protected_dirs : IsPrefix(protected, path)

trash_dir == <<".local", Sep, "share", Sep, "Trash">>

\* the files of the home tree of this model
HomeFiles ==
  { <<"proj", Sep, "a", ".tmp">>,
    <<"proj", Sep, "a", ".log">>,
    <<"proj", Sep, "b", ".log">>,
    <<"proj", Sep, "node_modules", Sep, "a">>,
    <<"proj", Sep, "build", Sep, "a">>,
    <<"proj", Sep, "__pycache__", Sep, "a", ".pyc">>,
    <<"docs", Sep, "a">>,
    <<".config", Sep, "a", ".tmp">>,
    <<".config", "2", Sep, "a", ".tmp">>,
    <<".ssh", Sep, "node_modules", Sep, "a">>,
    <<".local", Sep, "share", Sep, "app", Sep, "a", ".log">>,
    <<".local", Sep, "share", Sep, "Trash", Sep, "files", Sep, "a">> }

\* the paths whose st_mtime is older than any limit the scans ask about
OldPaths ==
  { <<"proj", Sep, "a", ".log">>,
    <<"proj", Sep, "node_modules">>,
    <<".ssh", Sep, "node_modules">>,
    <<".local", Sep, "share", Sep, "app", Sep, "a", ".log">> }

is_old_file(path) == path \in OldPaths

is_old_or_inactive(path) == path \in OldPaths

\* the directories of a tree: a directory is there while a file is under it
Dirs(tree) ==
  UNION { { SubSeq(f, 1, i - 1) : i \in { j \in 1..Len(f) : f[j] = Sep } } : f \in tree }

LastSep(path) ==
  LET seps == { j \in 1..Len(path) : path[j] = Sep }
  IN IF seps = {} THEN 0 ELSE CHOOSE j \in seps : \A k \in seps : k <= j

\* Path.name
BaseName(path) == SubSeq(path, LastSep(path) + 1, Len(path))

\* the last piece of the file name, which the *.tmp, *.log, *.pyc patterns test
Suffix(path) == path[Len(path)]

\* the files below a directory
Under(dir, tree) == { f \in tree : IsPrefix(dir \o <<Sep>>, f) }

\* os.walk() with dirs[:] pruned: a directory is listed when the test lets
\* it through, and then its parent, a prefix of its string, was let through
Walked(tree) == { d \in Dirs(tree) : ~is_protected_path(d) }

encontrar_node_modules(tree) ==
  { d \in Walked(tree) : BaseName(d) = <<"node_modules">> /\ is_old_or_inactive(d) }

\* two of the eight patterns
temp_patterns == {".tmp", ".log"}

encontrar_arquivos_temp(tree) ==
  { f \in tree : Suffix(f) \in temp_patterns /\ ~is_protected_path(f) }

\* two of the seven names
cache_dirs == { <<"build">>, <<"__pycache__">> }

encontrar_caches(tree) ==
  { d \in Walked(tree) : BaseName(d) \in cache_dirs /\ ~is_protected_path(d) }

encontrar_logs(tree) ==
  { f \in tree : Suffix(f) = ".log" /\ ~is_protected_path(f) /\ is_old_file(f) }

\* one of the seven directory names and one of the five file patterns
python_cache_dirs == { <<"__pycache__">> }

python_cache_files == {".pyc"}

encontrar_python_caches(tree) ==
  { d \in Walked(tree) : BaseName(d) \in python_cache_dirs /\ ~is_protected_path(d) }
    \cup { f \in tree : Suffix(f) \in python_cache_files /\ ~is_protected_path(f) }

\* LimpadorSistema.__init__
NovoLimpador ==
  [pc |-> "new", scan |-> "none", node_modules_dirs |-> {}, temp_files |-> {},
   cache_dirs |-> {}, log_files |-> {}, python_caches |-> {}]

escanear_sistema ==
  limpador' = [pc |-> "scanned", scan |-> "sistema",
               node_modules_dirs |-> encontrar_node_modules(home),
               temp_files |-> encontrar_arquivos_temp(home),
               cache_dirs |-> encontrar_caches(home),
               log_files |-> encontrar_logs(home),
               python_caches |-> {}]

escanear_python_only ==
  limpador' = [NovoLimpador EXCEPT !.pc = "scanned", !.scan = "python",
                                   !.python_caches = encontrar_python_caches(home)]

\* shutil.rmtree of each listed directory
RemoveTrees(tree, paths) == tree \ UNION { Under(d, tree) : d \in paths }

\* Path.unlink of each listed file
RemoveFiles(tree, paths) == tree \ paths

limpar_node_modules(tree) == RemoveTrees(tree, limpador.node_modules_dirs)

limpar_temp_files(tree) == RemoveFiles(tree, limpador.temp_files)

limpar_caches(tree) == RemoveTrees(tree, limpador.cache_dirs)

limpar_logs(tree) == RemoveFiles(tree, limpador.log_files)

limpar_python_caches(tree) ==
  RemoveFiles(RemoveTrees(tree, limpador.python_caches), limpador.python_caches)

limpar_lixeira(tree) == tree \ Under(trash_dir, tree)

ex_limpeza(only_nodes, only_python, full) ==
  LET listed == IF only_python THEN limpar_python_caches(home)
                ELSE IF only_nodes THEN limpar_node_modules(home)
                ELSE IF full THEN limpar_logs(limpar_caches(limpar_temp_files(home)))
                ELSE limpar_caches(limpar_temp_files(home))
  IN /\ home' = IF full /\ ~only_python /\ ~only_nodes THEN limpar_lixeira(listed) ELSE listed
     /\ limpador' = [limpador EXCEPT !.pc = "done"]

\* the questions of the interactive mode, in the order they are asked
Perguntas == {"node_modules", "tmp", "cache", "python", "logs", "trash"}

limpeza_interativa(sim) ==
  LET n == IF limpador.node_modules_dirs # {} /\ sim["node_modules"]
           THEN limpar_node_modules(home) ELSE home
      t == IF limpador.temp_files # {} /\ sim["tmp"] THEN limpar_temp_files(n) ELSE n
      c == IF limpador.cache_dirs # {} /\ sim["cache"] THEN limpar_caches(t) ELSE t
      p == IF limpador.python_caches # {} /\ sim["python"] THEN limpar_python_caches(c) ELSE c
      l == IF limpador.log_files # {} /\ sim["logs"] THEN limpar_logs(p) ELSE p
  IN /\ home' = IF sim["trash"] THEN limpar_lixeira(l) ELSE l
     /\ limpador' = [limpador EXCEPT !.pc = "done"]

\* main(): a new LimpadorSistema scans; --python-only chooses the scan
EscanearSistema ==
  /\ limpador.pc # "scanned"
  /\ escanear_sistema
  /\ UNCHANGED <<managerVars, home, pending>>

EscanearPythonOnly ==
  /\ limpador.pc # "scanned"
  /\ escanear_python_only
  /\ UNCHANGED <<managerVars, home, pending>>

\* main() --run, confirmed: --python-only, --only-nodes and --full are passed on
ExLimpeza ==
  \E only_nodes, full \in BOOLEAN :
    /\ limpador.pc = "scanned"
    /\ ex_limpeza(only_nodes, limpador.scan = "python", full)
    /\ UNCHANGED <<managerVars, pending>>

\* main() --interactive
LimpezaInterativa ==
  \E sim \in [Perguntas -> BOOLEAN] :
    /\ limpador.pc = "scanned"
    /\ limpeza_interativa(sim)
    /\ UNCHANGED <<managerVars, pending>>

\* no call is in flight
NoPending == <<>>

\* ------------------------------------------------ freshly built managers
ManagersInit ==
  /\ current_operation = NoOperation
  /\ opDirs = <<>>
  /\ ret = Ret("none", TRUE)
  /\ calls = [execute_ok |-> 0, seal_ok |-> 0]
  /\ faults = 0
  /\ items_to_trash = <<>>
  /\ fs = [p \in TrashPaths |-> [exists |-> TRUE, content |-> ContentOf(p)]]
  /\ bundles = <<>>
  /\ trashMeta = {}
  /\ sealed = <<>>
  /\ main = Idle
  /\ home = HomeFiles
  /\ limpador = NovoLimpador
  /\ pending = NoPending

\* ------------------------------------------------------------ scan inputs
ReportFile(i, c, s, m) ==
  [id |-> i, type |-> "report", category |-> c, subdir |-> s, mtime |-> m, size |-> i]

BackupFile(i, p, x, m) ==
  [id |-> 10 + i, type |-> "backup", parts |-> p, suffix |-> x, mtime |-> m, size |-> i]

ReportListings ==
  UNION { { [i \in 1..n |-> ReportFile(i, c[i], s[i], m[i])] :
              c \in [1..n -> ReportCategories],
              s \in [1..n -> Range(ReportSubdirs)],
              m \in [1..n -> 0..MaxTime] } : n \in 0..MaxReports }

BackupListings ==
  UNION { { [i \in 1..n |-> BackupFile(i, k[i].parts, k[i].suffix, m[i])] :
              k \in [1..n -> BackupNames],
              m \in [1..n -> 0..MaxBackupTime] } : n \in 0..MaxBackups }

NoScan == [op |-> "none", keep |-> 0, files |-> <<>>]

\* ---------------------------------------------------------- scan actions
ScanOldReports(keep_days) ==
  /\ scanned' = [op |-> "reports", keep |-> keep_days,
                 files |-> scan_old_reports(reportsDir, keep_days)]
  /\ UNCHANGED <<now, cleanerVars, pending, reportsDir, backupsDir, storageVars, archiveVars, ret, calls, faults,
                 trashVars, main>>

ScanOldBackups(keep_count) ==
  /\ scanned' = [op |-> "backups", keep |-> keep_count,
                 files |-> scan_old_backups(backupsDir, keep_count)]
  /\ UNCHANGED <<now, cleanerVars, pending, reportsDir, backupsDir, storageVars, archiveVars, ret, calls, faults,
                 trashVars, main>>

InitReports ==
  /\ now \in {MaxTime + 1, MaxTime + 2}
  /\ reportsDir \in ReportListings
  /\ backupsDir = <<>>
  /\ scanned = NoScan
  /\ StoreInit(TRUE)
  /\ ManagersInit

NextReports == \E keep_days \in 0..MaxKeepDays : ScanOldReports(keep_days)

SpecReports == InitReports /\ [][NextReports]_vars

InitBackups ==
  /\ now = MaxTime + 1
  /\ reportsDir = <<>>
  /\ backupsDir \in BackupListings
  /\ scanned = NoScan
  /\ StoreInit(TRUE)
  /\ ManagersInit

NextBackups == \E keep_count \in 0..MaxKeepCount : ScanOldBackups(keep_count)

SpecBackups == InitBackups /\ [][NextBackups]_vars

\* ------------------------------------------------- the archive life cycle
Init ==
  /\ now = MaxTime + 1
  /\ reportsDir = <<ReportFile(1, "sys", "html", 0), ReportFile(2, "sys", "html", 1)>>
  /\ backupsDir = <<>>
  /\ scanned = NoScan
  /\ \E root \in BOOLEAN : StoreInit(root)
  /\ ManagersInit

Next ==
  \/ InitializeStorage
  \/ PrepareMoveOperation
  \/ ExecuteMove
  \/ Tick

Spec == Init /\ [][Next]_vars

\* the same calls on a mounted volume, with the clock standing still
InitArchive ==
  /\ now = MaxTime + 1
  /\ reportsDir = <<ReportFile(1, "sys", "html", 0), ReportFile(2, "sys", "html", 1)>>
  /\ backupsDir = <<>>
  /\ scanned = NoScan
  /\ StoreInit(TRUE)
  /\ ManagersInit

\* one old report in a store that initialize_storage has laid out
InitArchiveReady ==
  /\ now = MaxTime + 1
  /\ reportsDir = <<ReportFile(1, "sys", "html", 0)>>
  /\ backupsDir = <<>>
  /\ scanned = NoScan
  /\ StoreReady
  /\ ManagersInit

NextArchive ==
  \/ InitializeStorage
  \/ PrepareMoveOperation
  \/ ExecuteMove

SpecArchive == InitArchive /\ [][NextArchive]_vars

\* ---------------------------------------------------- the trash life cycle
InitTrash ==
  /\ now = MaxTime + 1
  /\ reportsDir = <<>>
  /\ backupsDir = <<>>
  /\ scanned = NoScan
  /\ StoreReady
  /\ ManagersInit

NextTrash ==
  \/ AddItems({"MOVED"})
  \/ CompressAndMove({""})
  \/ ExtractItemFromTrash

SpecTrash == InitTrash /\ [][NextTrash]_vars

\* ------------------------------------------------- the policies registry
NextPolicies ==
  \/ InitializeStorage
  \/ UpdatePolicy

SpecPolicies == InitArchive /\ [][NextPolicies]_vars

\* ------------------------------------------------- sealing tagged items
\* the tags and paths of the --trash commands of this specification
TagInputs == {"MOVED", "LOGS"}

TaggedPaths == { p \in TrashPaths : p.dir = "d1" }

AddTagged ==
  \E path \in TaggedPaths, tag \in TagInputs :
    /\ calls.seal_ok < MaxSeals
    /\ Len(items_to_trash) < MaxTagged
    /\ add_items(<<path>>, tag)
    /\ UNCHANGED <<scanVars, cleanerVars, pending, storageVars, archiveVars, calls, faults,
                   fs, bundles, trashMeta, sealed, main>>

NextTags ==
  \/ AddTagged
  \/ SealNoError({"", "x"})

SpecTags == InitTrash /\ [][NextTags]_vars

\* ------------------------------------------------- reading the trash back
NextRestore ==
  \/ AddItems({"MOVED"})
  \/ SealNoError({""})
  \/ RestoreFromTrash
  \/ ExtractItemFromTrash

SpecRestore == InitTrash /\ [][NextRestore]_vars

\* ------------------------------------------------ reading an archive back
InitRecover ==
  /\ now = MaxTime + 1
  /\ reportsDir = <<ReportFile(1, "sys", "html", 0), ReportFile(2, "sys", "html", 1),
                    ReportFile(3, "sys", "raw", 0), ReportFile(4, "sys", "raw", 1)>>
  /\ backupsDir = <<>>
  /\ scanned = NoScan
  /\ StoreReady
  /\ ManagersInit

NextRecover ==
  \/ PrepareMoveOperation
  \/ ExecuteNoError
  \/ RestoreFromArchive

SpecRecover == InitRecover /\ [][NextRecover]_vars

\* ------------------------------------- archives and bundles read back
\* main.py:294-303: a --trash command stages one path on an empty list
StageOne ==
  /\ items_to_trash = <<>>
  /\ AddItems({"MOVED"})

NextReadBack ==
  \/ PrepareMoveOperation
  \/ ExecuteNoError
  \/ StageOne
  \/ SealNoError({""})
  \/ RestoreFromArchive
  \/ RestoreFromTrash
  \/ ExtractItemFromTrash

SpecReadBack == InitArchiveReady /\ [][NextReadBack]_vars

\* ------------------------------------------------------ command by command
InitMain ==
  /\ now = MaxTime + 1
  /\ reportsDir = <<ReportFile(1, "sys", "html", 0), ReportFile(2, "sys", "html", 1)>>
  /\ backupsDir = <<>>
  /\ scanned = NoScan
  /\ \E root \in BOOLEAN : StoreInit(root)
  /\ ManagersInit

NextMain ==
  \/ MainStart
  \/ MainLoad
  \/ MainMove
  \/ MainExecute
  \/ MainTrash
  \/ MainSeal
  \/ MainRestoreTrash

SpecMain == InitMain /\ [][NextMain]_vars

\* ------------------------------------------------------- cleaning the home
NextCleaner ==
  \/ EscanearSistema
  \/ EscanearPythonOnly
  \/ ExLimpeza
  \/ LimpezaInterativa

SpecCleaner == InitTrash /\ [][NextCleaner]_vars

\* ------------------------------------------------- scan, move, scan again
\* main.py:351-359: the list a scan returned is prepared, once for an
\* ArchiveManager, under no label
PrepareScanned ==
  /\ scanned.op # "none"
  /\ current_operation.status = "none"
  /\ prepare_move_operation(scanned.files, "")
  /\ UNCHANGED <<scanVars, cleanerVars, pending, storageVars, opDirs, calls, faults, trashVars, main>>

\* main.py:361: the prepared list is moved, once, with no I/O error
ExecuteScanned ==
  /\ calls.execute_ok = 0
  /\ ExecuteNoError

\* one category directory with its html reports, or the archives of two
\* backup categories
InitRetention ==
  /\ now = MaxTime + 1
  /\ \/ /\ reportsDir \in { l \in ReportListings : \A i \in 1..Len(l) : l[i].subdir = "html" }
        /\ backupsDir = <<>>
     \/ /\ reportsDir = <<>>
        /\ backupsDir \in { l \in BackupListings :
                              \A i \in 1..Len(l) : IsBackupArchive(l[i]) /\ l[i].suffix = ".gz" }
  /\ scanned = NoScan
  /\ StoreReady
  /\ ManagersInit

NextRetention ==
  \/ \E keep_days \in 0..MaxKeepDays : ScanOldReports(keep_days)
  \/ \E keep_count \in 0..MaxKeepCount : ScanOldBackups(keep_count)
  \/ PrepareScanned
  \/ ExecuteScanned

SpecRetention == InitRetention /\ [][NextRetention]_vars

\* ------------------------------------------------- two calls on one store
\* Two invocations of main.py run as two processes on one store.  Each is at
\* the end of execute_move or of compress_and_move: its files are moved or its
\* bundle is written, and it goes through _update_archives_index or
\* _update_trash_manifest and then increment_usage.  Each of these loads a
\* document, changes the copy it loaded and saves the copy; nothing holds a
\* lock, so the other process can run between any two file operations.
Callers == {1, 2}

CallKinds == {"execute_move", "compress_and_move"}

Document(kind) == IF kind = "execute_move" THEN "archives_index" ELSE "trash_manifest"

\* what caller c appends; the two calls started in different seconds
Entry(c, kind) ==
  IF kind = "execute_move"
  THEN IndexRow([operation_id |-> OperationId("", c), total_files |-> 1, total_size |-> 1])
  ELSE [filename |-> BundleFilename("MOVED", "", c), main_tag |-> "MOVED", total_items |-> 1,
        original_size |-> 1, compressed_size |-> 2,
        items |-> <<[name |-> <<"a">>, tag |-> "MOVED", size |-> 1]>>]

SaveBodyReloaded(c, rg) ==
  Append(load_json(rg, Document(pending[c].kind)), Entry(c, pending[c].kind))

\* the document a caller saves: the copy it loaded with its entry appended
SaveBody(c, rg) == Append(pending[c].copy, Entry(c, pending[c].kind))

LoadDocument ==
  \E c \in Callers, kind \in CallKinds :
    /\ c \notin DOMAIN pending
    /\ pending' = (c :> [kind |-> kind, pc |-> "loaded",
                         copy |-> load_json(reg, Document(kind)), usage |-> NoUsage]) @@ pending
    /\ UNCHANGED <<managerVars, cleanerVars>>

SaveDocument ==
  \E c \in DOMAIN pending :
    /\ pending[c].pc = "loaded"
    /\ reg' = save_json(reg, dirs, Document(pending[c].kind), SaveBody(c, reg), "ok")
    /\ pending' = [pending EXCEPT ![c].pc = "saved"]
    /\ UNCHANGED <<scanVars, cleanerVars, rootExists, dirs, archiveVars, ret, calls, faults,
                   trashVars, main>>

LoadUsage ==
  \E c \in DOMAIN pending :
    /\ pending[c].pc = "saved"
    /\ pending' = [pending EXCEPT ![c].pc = "counting", ![c].usage = load_json(reg, "usage")]
    /\ UNCHANGED <<managerVars, cleanerVars>>

SaveUsage ==
  \E c \in DOMAIN pending :
    /\ pending[c].pc = "counting"
    /\ reg' = save_json(reg, dirs, "usage",
                        IF pending[c].kind = "execute_move"
                        THEN Incremented(pending[c].usage, 1, 0)
                        ELSE Incremented(pending[c].usage, 0, 2), "ok")
    /\ pending' = [pending EXCEPT ![c].pc = "done"]
    /\ UNCHANGED <<scanVars, cleanerVars, rootExists, dirs, archiveVars, ret, calls, faults,
                   trashVars, main>>

NextRace ==
  \/ LoadDocument
  \/ SaveDocument
  \/ LoadUsage
  \/ SaveUsage

SpecRace == InitTrash /\ [][NextRace]_vars

\* ---------------------------------------------------- claims on the store
\* C8: while the storage root is missing, initialize_storage returns False
\* and no step creates a directory or a document, writes a bundle or an
\* operation directory, or moves or deletes a source file.
C8_MissingRootIsFatal ==
  [][ ~rootExists =>
        /\ UNCHANGED <<rootExists, dirs, reg, opDirs, bundles>>
        /\ UNCHANGED <<reportsDir, backupsDir, fs>>
        /\ (main.pc = "start" => ~main'.init_ok) ]_vars

IndexRows == load_json(reg, "archives_index")

\* C6: the Archives Index gains exactly one row, at its end, in every
\* execute_move that returns True, and no step removes or rewrites a row.
C6_IndexAppendOnly ==
  [][ /\ IsPrefix(IndexRows, IndexRows')
      /\ Len(IndexRows') - Len(IndexRows) = calls'.execute_ok - calls.execute_ok ]_vars

Usage == load_json(reg, "usage")

\* C7: no usage counter ever decreases, and the operation count grows by
\* one in every execute_move or compress_and_move that returns True and by
\* nothing in any other step.
C7_UsageMonotone ==
  [][ /\ Usage'.total_operations >= Usage.total_operations
      /\ Usage'.total_moved_mb >= Usage.total_moved_mb
      /\ Usage'.total_trashed_mb >= Usage.total_trashed_mb
      /\ Usage'.total_operations - Usage.total_operations =
           (calls'.execute_ok + calls'.seal_ok) - (calls.execute_ok + calls.seal_ok) ]_vars

\* C9: no document of the store is ever left partially written.
C9_NeverPartiallyWritten ==
  \A r \in RegNames : reg[r].state # "corrupt"

\* ---------------------------------------------------- claims on the trash
SealedNow == sealed[ret.file].staged

\* C1: after compress_and_move returns, every staged path whose add to the
\* bundle failed still exists.
C1_FailedAddKeepsOriginal ==
  (ret.op = "compress_and_move" /\ ret.file \in DOMAIN sealed) =>
    \A i \in 1..Len(SealedNow) :
      (SealedNow[i].existed /\ ~SealedNow[i].added) => fs[SealedNow[i].path].exists

Manifest == load_json(reg, "trash_manifest")

\* C10: every Trash Manifest entry names a bundle that was written, and
\* every item the entry lists is a member of that bundle.
C10_ManifestListsMembers ==
  \A e \in 1..Len(Manifest) :
    /\ Manifest[e].filename \in DOMAIN bundles
    /\ \A i \in 1..Len(Manifest[e].items) :
         \E m \in 1..Len(bundles[Manifest[e].filename]) :
           bundles[Manifest[e].filename][m].name = Manifest[e].items[i].name

ExtractedFromSealed ==
  /\ ret.op = "extract_item_from_trash"
  /\ ret.msg \notin {"error", "raised"}
  /\ ret.file \in DOMAIN sealed
  /\ sealed[ret.file].ok

RoundTrips(item) ==
  /\ ret.ok
  /\ ret.item \in DOMAIN ret.files
  /\ ret.files[ret.item] = item.content

\* C5: after staging and sealing, extracting by the name of any staged item
\* that was added to the bundle gives back that item's content, also when
\* several staged items share a name or one name is part of another.
C5_RoundTripAnyNames ==
  ExtractedFromSealed =>
    \A i \in 1..Len(SealedNow) :
      (SealedNow[i].name = ret.item /\ SealedNow[i].added) => RoundTrips(SealedNow[i])

\* ------------------------------------------------ claims on operations
Executed == { id \in DOMAIN opDirs : opDirs[id].metadata.written }

RowsFor(rows, id) == Cardinality({ i \in 1..Len(rows) : rows[i].operation_id = id })

\* C13: once metadata.json of an operation has been written, no later step
\* changes the operation's directory or metadata.json or adds an index row
\* for its id.
C13_ExecutedIsFinal ==
  [][ \A id \in Executed :
        /\ opDirs'[id] = opDirs[id]
        /\ RowsFor(IndexRows', id) <= RowsFor(IndexRows, id) ]_vars

\* C14: the status of an archive operation is always "prepared" or "executed":
\* it is "prepared" when prepare_move_operation has returned an id, and it is
\* "executed" when execute_move has returned True.
C14_StatusFollowsLifecycle ==
  /\ current_operation # NoOperation => current_operation.status \in {"prepared", "executed"}
  /\ (ret.op = "prepare_move_operation" /\ ret.ok) => current_operation.status = "prepared"
  /\ (ret.op = "execute_move" /\ ret.ok) => current_operation.status = "executed"

\* C16: in a call of execute_move that is confirmed and in which nothing but
\* moves of candidates fails, with at least one candidate failing, every
\* candidate whose move does not fail is moved into the operation directory and
\* listed in metadata.json, every failing candidate is in the errors list,
\* metadata.json and the index row of the operation are written, and the call
\* returns True.
C16_MoveFailureDoesNotAbort ==
  [][ \A move_fails \in SUBSET CandidateIds, usage_outcome \in SaveOutcomes :
        LET op == current_operation
            fails(f) == f.id \notin SourceIds \/ f.id \in move_fails
        IN (/\ op # NoOperation
            /\ \E i \in 1..Len(op.files) : fails(op.files[i])
            /\ execute_move(TRUE, TRUE, move_fails, TRUE, "ok", usage_outcome))
           => /\ ret'.ok
              /\ op.id \in DOMAIN opDirs'
              /\ opDirs'[op.id].metadata.written
              /\ opDirs'[op.id].metadata.operation_id = op.id
              /\ \A i \in 1..Len(op.files) :
                   LET f == op.files[i]
                   IN IF fails(f)
                      THEN f.id \in Range(opDirs'[op.id].metadata.errors)
                      ELSE /\ Destination(f) \in opDirs'[op.id].files
                           /\ f.id \notin SourceIds'
                           /\ \E k \in 1..Len(opDirs'[op.id].metadata.files) :
                                opDirs'[op.id].metadata.files[k].info = f
              /\ IndexRows' # <<>>
              /\ IndexRows'[Len(IndexRows')].operation_id = op.id ]_vars

C16_Witness ==
  /\ ret.op = "execute_move"
  /\ ret.ok
  /\ current_operation.id \in DOMAIN opDirs
  /\ opDirs[current_operation.id].metadata.errors # <<>>
  /\ opDirs[current_operation.id].metadata.files # <<>>
  /\ IndexRows # <<>>
  /\ IndexRows[Len(IndexRows)].operation_id = current_operation.id

\* C24: prepare_move_operation with an empty list returns no id and leaves
\* current_operation as it was; with a list that is not empty it returns an id
\* and current_operation holds the id "moving-<name>-<timestamp>", or
\* "moving-<timestamp>" when no name is given, the list, its length, the sum
\* of the sizes and the status "prepared".
C24_PrepareRecords ==
  [][ \A files \in ScanResults, operation_name \in OperationNames :
        prepare_move_operation(files, operation_name) =>
          IF files = <<>>
          THEN ~ret'.ok /\ current_operation' = current_operation
          ELSE /\ ret'.ok
               /\ current_operation'.id =
                    (IF operation_name = "" THEN <<"moving", now>>
                     ELSE <<"moving", operation_name, now>>)
               /\ current_operation'.files = files
               /\ current_operation'.total_files = Len(files)
               /\ current_operation'.total_size = SumSize(files)
               /\ current_operation'.status = "prepared" ]_vars

C24_Witness ==
  /\ ret.op = "prepare_move_operation"
  /\ ~ret.ok
  /\ current_operation.status = "prepared"
  /\ Len(current_operation.id) = 3
  /\ current_operation.total_size = 3

\* ------------------------------------------- claims on initialize_storage
LaidOut ==
  /\ rootExists
  /\ dirs = DirNames
  /\ \A r \in RegNames : reg[r].state # "absent"

\* C12: a call of initialize_storage in which no write fails leaves every
\* directory and every document in place, and a call on a store where they
\* are all in place (after such a first call, or after operations have
\* changed the documents since) changes no document and no directory.
C12_InitializeTwice ==
  [][ ret'.op = "initialize_storage" =>
        /\ (ret'.ok /\ faults' = faults) => LaidOut'
        /\ LaidOut => (reg' = reg /\ dirs' = dirs /\ ret'.ok) ]_vars

C12_Witness ==
  /\ ret.op = "initialize_storage"
  /\ ret.ok
  /\ LaidOut
  /\ Len(IndexRows) >= 1
  /\ Usage.total_operations >= 1

\* --------------------------------------------------- claims on sealing
\* C15: a call of compress_and_move on a staging list that is not empty
\* leaves the staging list empty, whether it returns True or False.
C15_SealClearsStaging ==
  [][ (ret'.op = "compress_and_move" /\ items_to_trash # <<>>) =>
        items_to_trash' = <<>> ]_vars

\* C17: compress_and_move returns False exactly when the bundle cannot be
\* opened for writing or the Trash Manifest cannot be written; in particular,
\* whenever it has returned True the Trash Manifest holds an entry for the
\* bundle it has just written.
C17_TrueMeansListed ==
  (ret.op = "compress_and_move" /\ ret.ok) =>
    \E e \in 1..Len(Manifest) : Manifest[e].filename = ret.file

\* C18: the tag in the name of the bundle that compress_and_move writes is
\* the tag of some staged item, no tag is on more staged items than it is, and
\* every other tag that is on as many staged items was first staged later; the
\* tag is the first part of the bundle's filename.
HeldBy(items, tag) == { i \in 1..Len(items) : items[i].tag = tag }

FirstHeld(items, tag) == CHOOSE i \in HeldBy(items, tag) : \A j \in HeldBy(items, tag) : i <= j

C18_DominantTag ==
  [][ (ret'.op = "compress_and_move" /\ ret'.file # <<>>) =>
        LET items == items_to_trash
            tag == ret'.file[1]
        IN /\ HeldBy(items, tag) # {}
           /\ \A i \in 1..Len(items) :
                LET other == items[i].tag
                IN /\ Cardinality(HeldBy(items, other)) <= Cardinality(HeldBy(items, tag))
                   /\ (other # tag /\ Cardinality(HeldBy(items, other)) = Cardinality(HeldBy(items, tag)))
                        => FirstHeld(items, tag) < FirstHeld(items, other) ]_vars

C18_Witness ==
  /\ ret.op = "compress_and_move"
  /\ ret.ok
  /\ \E e \in 1..Len(Manifest) :
       /\ Manifest[e].filename = ret.file
       /\ Manifest[e].main_tag = ret.file[1]
       /\ Len(Manifest[e].items) = 3
       /\ Manifest[e].items[1].tag # ret.file[1]

\* ------------------------------------------------- claims on restoring
\* C11: a call of restore_from_trash, whether it returns True or False,
\* leaves every bundle and the Trash Manifest (and every other document) as
\* they were, so the bundle is still listed afterwards.
C11_RestoreKeepsBundle ==
  [][ ret'.op = "restore_from_trash" =>
        /\ bundles' = bundles
        /\ Manifest' = Manifest
        /\ reg' = reg
        /\ trashMeta' = trashMeta ]_vars

C11_Witness ==
  /\ ret.op = "restore_from_trash"
  /\ ret.ok
  /\ ret.file \in DOMAIN bundles
  /\ \E e \in 1..Len(Manifest) : Manifest[e].filename = ret.file

\* C19: a restore_from_archive of an existing operation that meets no copy
\* error copies, when item_name is given, the files of the operation
\* directory whose name contains item_name in lower case and no other file,
\* and returns False if and only if there is no such file; when no item_name
\* is given it returns True and copies every file of the operation directory
\* except its metadata.json, each at its relative path.
C19_CopiesIntendedFiles ==
  [][ (ret'.op = "restore_from_archive" /\ ret'.file \in DOMAIN opDirs /\ ret'.msg \notin {"error", "raised"}) =>
        LET tree == ArchiveTree(ret'.file)
            hits == { p \in tree : IsSubstring(LowerName(ret'.item), LowerName(NameAt(p))) }
        IN IF ret'.item # <<>>
           THEN /\ DOMAIN ret'.files = { NameAt(p) : p \in hits }
                /\ \A n \in DOMAIN ret'.files : ret'.files[n] \in hits /\ NameAt(ret'.files[n]) = n
                /\ ret'.ok <=> hits # {}
           ELSE /\ ret'.ok
                /\ ret'.files = [p \in tree \ {MetadataPath} |-> p] ]_vars

\* C20: extract_item_from_trash leaves every bundle as it is; when the bundle
\* exists and is read without an error, the files it writes are exactly those
\* named as a member whose name contains item_name, compared in lower case,
\* each with the content of such a member, and it returns False, with "item
\* not found", if and only if no member matches.
Hits(members, item_name) ==
  { i \in 1..Len(members) : IsSubstring(LowerName(item_name), LowerName(members[i].name)) }

C20_ExtractsMatching ==
  [][ ret'.op = "extract_item_from_trash" =>
        /\ bundles' = bundles
        /\ (ret'.file \in DOMAIN bundles /\ ret'.msg \notin {"error", "raised"}) =>
             LET members == bundles[ret'.file]
                 hit == Hits(members, ret'.item)
             IN /\ DOMAIN ret'.files = { members[i].name : i \in hit }
                /\ \A n \in DOMAIN ret'.files :
                     \E i \in hit : members[i].name = n /\ members[i].content = ret'.files[n]
                /\ ret'.ok <=> hit # {}
                /\ ret'.msg = "item not found" <=> hit = {} ]_vars

C20_Witness ==
  /\ ret.op = "extract_item_from_trash"
  /\ ret.ok
  /\ ret.file \in DOMAIN bundles
  /\ DOMAIN ret.files # {}
  /\ \E i \in 1..Len(bundles[ret.file]) : bundles[ret.file][i].name \notin DOMAIN ret.files

\* ------------------------------------------------- claims on the scanners
ScannedIds == { scanned.files[i].id : i \in 1..Len(scanned.files) }

DayGroups ==
  { { f \in Range(reportsDir) :
        f.category = c /\ f.subdir = s /\ DateOf(f.mtime) = d } :
      c \in ReportCategories, s \in Range(ReportSubdirs), d \in 0..DateOf(MaxTime) } \ {{}}

NewestOf(g) == CHOOSE m \in { f.mtime : f \in g } : \A f \in g : f.mtime <= m

ReturnedOf(g) == { f \in g : f.id \in ScannedIds }

NoDuplicateReturns == Cardinality(ScannedIds) = Len(scanned.files)

\* C2: a day-group of two or more reports whose newest file is within
\* keep_days of now loses exactly count-1 members to the scan, and the one
\* member that stays is a most recently modified one.
C2_RecentGroupKeepsNewest ==
  scanned.op = "reports" =>
    /\ NoDuplicateReturns
    /\ \A g \in DayGroups :
         (Cardinality(g) >= 2 /\ NewestOf(g) >= Cutoff(scanned.keep)) =>
           /\ Cardinality(ReturnedOf(g)) = Cardinality(g) - 1
           /\ \A f \in g \ ReturnedOf(g) : f.mtime = NewestOf(g)

C2_Witness ==
  /\ scanned.op = "reports"
  /\ \E g \in DayGroups :
       /\ Cardinality(g) >= 3
       /\ NewestOf(g) >= Cutoff(scanned.keep)
       /\ \E f \in g : f.mtime < Cutoff(scanned.keep)
       /\ Cardinality(ReturnedOf(g)) = 2

\* C3: a day-group whose newest file is older than now - keep_days is
\* returned whole; a group of one file is returned exactly when that file
\* is older than the cutoff.
C3_ExpiredGroupMovesWhole ==
  scanned.op = "reports" =>
    \A g \in DayGroups :
      /\ NewestOf(g) < Cutoff(scanned.keep) => ReturnedOf(g) = g
      /\ Cardinality(g) = 1 =>
           (ReturnedOf(g) = g <=> NewestOf(g) < Cutoff(scanned.keep))

C3_Witness ==
  /\ scanned.op = "reports"
  /\ \E g \in DayGroups :
       Cardinality(g) >= 2 /\ NewestOf(g) < Cutoff(scanned.keep) /\ ReturnedOf(g) = g
  /\ \E g \in DayGroups :
       Cardinality(g) = 1 /\ NewestOf(g) >= Cutoff(scanned.keep) /\ ReturnedOf(g) = {}

BackupCategories ==
  { CategoryOf(f) : f \in { b \in Range(backupsDir) : IsBackupArchive(b) } }

BackupsOf(c) == { f \in Range(backupsDir) : IsBackupArchive(f) /\ CategoryOf(f) = c }

\* C4: with keep_count = N the backup scan returns exactly max(0, total-N)
\* files of every category, and every file it leaves in place is at least
\* as recent as every file it returns.
C4_KeepCountNewest ==
  scanned.op = "backups" =>
    /\ NoDuplicateReturns
    /\ \A f \in Range(scanned.files) : IsBackupArchive(f)
    /\ \A c \in BackupCategories :
         LET all == BackupsOf(c)
             returned == { f \in all : f.id \in ScannedIds }
         IN /\ Cardinality(returned) = Max(0, Cardinality(all) - scanned.keep)
            /\ \A k \in all \ returned : \A r \in returned : k.mtime >= r.mtime

C4_Witness ==
  /\ scanned.op = "backups"
  /\ scanned.keep = 2
  /\ \E c \in BackupCategories :
       /\ Cardinality(BackupsOf(c)) = 3
       /\ Len(scanned.files) = 1
       /\ \E f \in BackupsOf(c) : f.mtime > scanned.files[1].mtime

\* ------------------------------------------ claims on what restores report
RestoreOps == {"restore_from_archive", "restore_from_trash", "extract_item_from_trash"}

NotFoundMessages == {"archive not found", "bundle not found", "item not found"}

\* the archive or bundle that the last call named does not exist
NoContainer(r) ==
  IF r.op = "restore_from_archive" THEN r.file \notin DOMAIN opDirs
  ELSE r.file \notin DOMAIN bundles

\* it exists, an item_name was given and no file or member matches it
NoItem(r) ==
  /\ ~NoContainer(r)
  /\ CASE r.op = "restore_from_archive" ->
            /\ r.item # <<>>
            /\ \A p \in ArchiveTree(r.file) : ~IsSubstring(LowerName(r.item), LowerName(NameAt(p)))
       [] r.op = "extract_item_from_trash" -> Hits(bundles[r.file], r.item) = {}
       [] OTHER -> FALSE

C22_DaysOrCount ==
  \A c \in DOMAIN get_policies(reg) :
    ~({"keep_days", "keep_count"} \subseteq DOMAIN get_policies(reg)[c])

\* C23: once update_policy has been called, get_policies returns every default
\* category, each either with its default parameters or with a policy that
\* update_policy was given for it, also when the policies file was missing or
\* unreadable at the call.
C23_DefaultsAlwaysPresent ==
  ret.op = "update_policy" =>
    \A c \in DOMAIN default_policies :
      /\ c \in DOMAIN get_policies(reg)
      /\ \/ get_policies(reg)[c] = default_policies[c]
         \/ c \in PolicyCategories /\ get_policies(reg)[c] \in PolicyInputs

\* ---------------------------------------------------- claims on the cleaner
\* located under a protected directory, whatever the string test says
UnderProtected(path) == \E protected \in protected_dirs : IsPrefix(protected \o <<Sep>>, path)

\* C25: no file under a protected directory is ever deleted, whatever was
\* scanned and whichever cleaning mode ran.
C25_ProtectedNeverCleaned ==
  \A f \in HomeFiles : UnderProtected(f) => f \in home

\* ------------------------------------------------ claims on what seal deletes
\* the bundles that were closed, given their metadata document and listed
Recorded ==
  { g \in DOMAIN sealed :
      /\ sealed[g].ok
      /\ g \in trashMeta
      /\ \E e \in 1..Len(Manifest) : Manifest[e].filename = g }

\* C26: every staged path that compress_and_move has deleted is a member of
\* a bundle that was closed, has its metadata document and is listed in the
\* Trash Manifest; every other staged path is still where it was.
C26_DeletedOnlyWhenRecorded ==
  \A f \in DOMAIN sealed : \A i \in 1..Len(sealed[f].staged) :
    (sealed[f].staged[i].existed /\ ~fs[sealed[f].staged[i].path].exists) =>
      \E g \in Recorded : \E j \in 1..Len(sealed[g].staged) :
        /\ sealed[g].staged[j].path = sealed[f].staged[i].path
        /\ sealed[g].staged[j].added

\* ------------------------------------------------ claims on concurrent calls
HasSaved(c) == c \in DOMAIN pending /\ pending[c].pc # "loaded"

Holds(doc, entry) ==
  \E i \in 1..Len(load_json(reg, doc)) : load_json(reg, doc)[i] = entry

InCopy(c, entry) == \E i \in 1..Len(pending[c].copy) : pending[c].copy[i] = entry

\* C27: when two execute_move calls (or two compress_and_move calls) have
\* both saved the Archives Index (the Trash Manifest), the document holds
\* the entry of at least one of them, and it holds both exactly when one of
\* them loaded its copy after the other had saved: two calls that both
\* loaded before either saved leave only the entry of the one that saved last.
C27_LastWriterWins ==
  \A c, d \in Callers :
    (c # d /\ HasSaved(c) /\ HasSaved(d) /\ pending[c].kind = pending[d].kind) =>
      LET doc == Document(pending[c].kind)
          mine == Entry(c, pending[c].kind)
          theirs == Entry(d, pending[d].kind)
      IN /\ Holds(doc, mine) \/ Holds(doc, theirs)
         /\ (Holds(doc, mine) /\ Holds(doc, theirs)) <=> (InCopy(c, theirs) \/ InCopy(d, mine))

C27_Witness ==
  /\ DOMAIN pending = Callers
  /\ \A c \in Callers : pending[c].pc = "done" /\ pending[c].kind = "execute_move"
  /\ Len(load_json(reg, "archives_index")) = 1

\* ------------------------------------------- claims on operation directories
\* C28: the operation that prepare_move_operation sets up never gets the id
\* of an operation directory that holds the metadata.json of an earlier
\* operation, so no two operations share a directory and no metadata.json
\* is overwritten by a later operation.
C28_FreshOperationDir ==
  [][ (ret'.op = "prepare_move_operation" /\ ret'.ok) =>
        \A id \in DOMAIN opDirs : opDirs[id].metadata.written => current_operation'.id # id ]_vars

\* ------------------------------------------- claims on what execute records
Listed(metadata, f) ==
  { i \in 1..Len(metadata.files) : metadata.files[i].info = f /\ metadata.files[i].moved }

Failed(metadata, f) == { i \in 1..Len(metadata.errors) : metadata.errors[i] = f.id }

\* C29: after an execute_move that returns True, every candidate is either
\* in the file list of metadata.json with moved set, gone from its source and
\* present at its destination, or has exactly one entry in the error list and
\* is still at its source; the two lists together are as long as the
\* candidate list, and total_files and total_size of metadata.json and of the
\* row the index gains count the moved files only.
C29_Bookkeeping ==
  [][ (ret'.op = "execute_move" /\ ret'.ok) =>
        LET op == current_operation
            metadata == opDirs'[op.id].metadata
            moved == [i \in 1..Len(metadata.files) |-> metadata.files[i].info]
        IN /\ \A k \in 1..Len(op.files) :
                \/ /\ Cardinality(Listed(metadata, op.files[k])) = 1
                   /\ Failed(metadata, op.files[k]) = {}
                   /\ op.files[k].id \notin SourceIds'
                   /\ Destination(op.files[k]) \in opDirs'[op.id].files
                \/ /\ Listed(metadata, op.files[k]) = {}
                   /\ Cardinality(Failed(metadata, op.files[k])) = 1
                   /\ op.files[k].id \in SourceIds'
           /\ Len(metadata.files) + Len(metadata.errors) = Len(op.files)
           /\ metadata.total_files = Len(moved)
           /\ metadata.total_size = SumSize(moved)
           /\ Len(IndexRows') > Len(IndexRows) =>
                /\ IndexRows'[Len(IndexRows')].total_files = Len(moved)
                /\ IndexRows'[Len(IndexRows')].total_size = SumSize(moved) ]_vars

\* ------------------------------------------------------ claims on retention
\* the move of the list that the last scan returned has been executed
MovedTheScanned ==
  /\ ret.op = "execute_move"
  /\ ret.ok
  /\ scanned.op # "none"
  /\ current_operation.files = scanned.files

\* C30: once the list a scan returned has been moved with no error and the
\* clock has not advanced, the same scan with the same keep_days or
\* keep_count returns nothing: the files the scan kept are not selected again.
C30_RetentionFixedPoint ==
  MovedTheScanned =>
    IF scanned.op = "reports"
    THEN scan_old_reports(reportsDir, scanned.keep) = <<>>
    ELSE scan_old_backups(backupsDir, scanned.keep) = <<>>

C30_Witness ==
  /\ MovedTheScanned
  /\ scanned.op = "backups"
  /\ scanned.keep >= 1
  /\ Len(backupsDir) >= 1
  /\ \E i \in 1..Len(scanned.files) : scanned.files[i].id \notin SourceIds

====
